---- MODULE Spec2Model ----
(***************************************************************************)
(* SEO Tag Inspector: the POST /api/analyze handler of backend/server.js.  *)
(*                                                                         *)
(* A JavaScript value is a record [t, s]: t is the type tag ("string",     *)
(* "null", "undefined") and s the string's text, a sequence of tokens.  A  *)
(* token is one whitespace character " " or one opaque run of              *)
(* non-whitespace text, so that String.prototype.trim and the truthiness   *)
(* of the empty string are computed rather than assumed.                   *)
(***************************************************************************)
EXTENDS Integers, Sequences, FiniteSets, TLC

\* the handler (backend/server.js)
VARIABLES pc, reqUrl, fetchResult, response, fetches, sent

\* the form component (App.tsx): its state and its request in flight
VARIABLES cUrl, isLoading, cError, cResult, cPc, wire, lastEvent

svars == <<pc, reqUrl, fetchResult, response, fetches, sent>>

cvars == <<cUrl, isLoading, cError, cResult, cPc, wire, lastEvent>>

vars == <<svars, cvars>>

(***************************************************************************)
(* Bounds of the model.                                                    *)
(***************************************************************************)
\* number of distinct ordinary content words a varied tag may carry
MaxWords == 2

WordPool == <<"alpha", "beta", "gamma", "delta">>

Words == {WordPool[i] : i \in 1..MaxWords}

(***************************************************************************)
(* JavaScript values.                                                      *)
(***************************************************************************)
Null == [t |-> "null", s |-> <<>>]

Undefined == [t |-> "undefined", s |-> <<>>]

Str(x) == [t |-> "string", s |-> x]

EmptyString == Str(<<>>)

\* ToBoolean on the values that occur: null, undefined and '' are falsy
Truthy(v) == v.t = "string" /\ v.s # <<>>

\* a || b
JsOr(a, b) == IF Truthy(a) THEN a ELSE b

IsSpace(c) == c = " "

RECURSIVE TrimStart(_)
TrimStart(x) ==
  IF x = <<>> THEN <<>>
  ELSE IF IsSpace(Head(x)) THEN TrimStart(Tail(x)) ELSE x

RECURSIVE TrimEnd(_)
TrimEnd(x) ==
  IF x = <<>> THEN <<>>
  ELSE IF IsSpace(x[Len(x)]) THEN TrimEnd(SubSeq(x, 1, Len(x) - 1)) ELSE x

\* String.prototype.trim
Trim(x) == TrimEnd(TrimStart(x))

(***************************************************************************)
(* The tag keys, in the order the handler pushes their findings.           *)
(***************************************************************************)
ogNames == <<"og:title", "og:description", "og:image", "og:type", "og:url">>

twitterNames ==
  <<"twitter:card", "twitter:title", "twitter:description", "twitter:image">>

SeqRange(q) == {q[i] : i \in 1..Len(q)}

OgKeys == SeqRange(ogNames)

TwitterKeys == SeqRange(twitterNames)

SocialKeys == OgKeys \cup TwitterKeys

BasicKeys == {"title", "description", "robots", "canonical"}

Keys == BasicKeys \cup SocialKeys

\* the meta[name=...] selectors the handler evaluates
MetaNames == {"description", "robots"} \cup SocialKeys

\* the messages pushed as the value of a warning finding
RobotsMessage == Str(<<"No robots meta tag found">>)

CanonicalMessage == Str(<<"No canonical URL found">>)

maxScore == 100

(***************************************************************************)
(* The parsed document, as the handler's selectors see it:                 *)
(*   titleText       $('title').text()           ('' when no title)        *)
(*   metaName[n]     $('meta[name=n]').attr('content')                     *)
(*   metaProperty[n] $('meta[property=n]').attr('content')                 *)
(*   linkHref        $('link[rel="canonical"]').attr('href')               *)
(* attr() is undefined when no element matches or the attribute is absent. *)
(***************************************************************************)
Min(a, b) == IF a < b THEN a ELSE b

\* the document in which exactly the tags of B occur, each in its usual
\* form (og:* as meta[property], twitter:* as meta[name]) with its own key
\* as content
CanonicalDoc(B) ==
  [titleText |-> IF "title" \in B THEN <<"title">> ELSE <<>>,
   metaName |-> [n \in MetaNames |->
                   IF n \in B /\ n \notin OgKeys THEN Str(<<n>>) ELSE Undefined],
   metaProperty |-> [n \in SocialKeys |->
                   IF n \in B /\ n \in OgKeys THEN Str(<<n>>) ELSE Undefined],
   linkHref |-> IF "canonical" \in B THEN Str(<<"canonical">>) ELSE Undefined]

\* words a varied tag may carry: ordinary words and the text of the two
\* warning messages
ContentWords == Words \cup {RobotsMessage.s[1], CanonicalMessage.s[1]}

\* attribute values a varied element may carry: no attribute, '', ' ', a word
AttrVals ==
  {Undefined, EmptyString, Str(<<" ">>)} \cup {Str(<<w>>) : w \in ContentWords}

TitleTexts ==
  {<<>>, <<" ">>} \cup {<<w>> : w \in ContentWords}
                  \cup {<<" ", w, " ">> : w \in ContentWords}

GroupSets ==
  {{"title", "description"}, {"robots", "canonical"}, OgKeys, TwitterKeys}

VariantBases == {UNION G : G \in SUBSET GroupSets}

\* documents that depart from a canonical one in the element(s) of one key
VariantsOf(d) ==
  {[d EXCEPT !.titleText = x] : x \in TitleTexts}
  \cup {[d EXCEPT !.metaName[n] = v] : n \in {"description", "robots"},
                                         v \in AttrVals}
  \cup {[d EXCEPT !.linkHref = v] : v \in AttrVals}
  \cup {[d EXCEPT !.metaName[n] = v, !.metaProperty[n] = w] :
          n \in SocialKeys, v \in AttrVals, w \in AttrVals}

\* the documents a fetch may return
Docs ==
  {CanonicalDoc(B) : B \in SUBSET Keys}
  \cup UNION {VariantsOf(CanonicalDoc(B)) : B \in VariantBases}

NoDoc == CanonicalDoc({})

(***************************************************************************)
(* Extraction (server.js 19-23, 45-61).                                    *)
(***************************************************************************)
\* mutant: the property form is tried before the name form
getMetaContentPropertyFirst(doc, name) ==
  LET element == JsOr(doc.metaProperty[name], doc.metaName[name])
  IN  JsOr(element, Null)

\* a ?? b
JsNullish(a, b) == IF a.t \in {"null", "undefined"} THEN b ELSE a

\* mutant: ?? instead of ||, so an empty content does not fall through
getMetaContentNullish(doc, name) ==
  LET element == JsNullish(doc.metaName[name], doc.metaProperty[name])
  IN  JsNullish(element, Null)

getMetaContent(doc, name) ==
  LET element == JsOr(doc.metaName[name], doc.metaProperty[name])
  IN  JsOr(element, Null)

\* the handler's extracted locals, keyed by tag
Extract(doc) ==
  [k \in Keys |->
     CASE k = "title" -> Str(Trim(doc.titleText))
       [] k = "description" -> JsOr(doc.metaName["description"], EmptyString)
       [] k = "robots" -> JsOr(doc.metaName["robots"], EmptyString)
       [] k = "canonical" -> JsOr(doc.linkHref, EmptyString)
       [] OTHER -> getMetaContent(doc, k)]

(***************************************************************************)
(* Scoring (server.js 64-137).  acc is the pair of the handler's running   *)
(* locals: score and results.                                              *)
(***************************************************************************)
Finding(tag, status, value) == [tag |-> tag, status |-> status, value |-> value]

Push(acc, points, finding) ==
  [score |-> acc.score + points, results |-> Append(acc.results, finding)]

CheckTitle(acc, title) ==
  IF Truthy(title)
  THEN Push(acc, 20, Finding("title", "present", title))
  ELSE Push(acc, 0, Finding("title", "missing", Null))

\* mutant: a present description earns the weight of robots
CheckDescriptionTen(acc, description) ==
  IF Truthy(description)
  THEN Push(acc, 10, Finding("description", "present", description))
  ELSE Push(acc, 0, Finding("description", "missing", Null))

CheckDescription(acc, description) ==
  IF Truthy(description)
  THEN Push(acc, 20, Finding("description", "present", description))
  ELSE Push(acc, 0, Finding("description", "missing", Null))

\* mutant: an absent robots tag earns nothing
CheckRobotsNoCredit(acc, robots) ==
  IF Truthy(robots)
  THEN Push(acc, 10, Finding("robots", "present", robots))
  ELSE Push(acc, 0, Finding("robots", "warning", RobotsMessage))

CheckRobots(acc, robots) ==
  IF Truthy(robots)
  THEN Push(acc, 10, Finding("robots", "present", robots))
  ELSE Push(acc, 5, Finding("robots", "warning", RobotsMessage))

\* mutant: the canonical warning carries no message
CheckCanonicalNullValue(acc, canonical) ==
  IF Truthy(canonical)
  THEN Push(acc, 10, Finding("canonical", "present", canonical))
  ELSE Push(acc, 0, Finding("canonical", "warning", Null))

\* mutant: an absent canonical earns the partial credit of robots
CheckCanonicalPartialCredit(acc, canonical) ==
  IF Truthy(canonical)
  THEN Push(acc, 10, Finding("canonical", "present", canonical))
  ELSE Push(acc, 5, Finding("canonical", "warning", CanonicalMessage))

CheckCanonical(acc, canonical) ==
  IF Truthy(canonical)
  THEN Push(acc, 10, Finding("canonical", "present", canonical))
  ELSE Push(acc, 0, Finding("canonical", "warning", CanonicalMessage))

\* mutant: an absent social tag pushes no finding
CheckSocialTagSkipsMissing(acc, tag) ==
  IF Truthy(tag.value)
  THEN Push(acc, 2, Finding(tag.name, "present", tag.value))
  ELSE acc

\* one iteration of ogTags.forEach / twitterTags.forEach
CheckSocialTag(acc, tag) ==
  IF Truthy(tag.value)
  THEN Push(acc, 2, Finding(tag.name, "present", tag.value))
  ELSE Push(acc, 0, Finding(tag.name, "missing", Null))

RECURSIVE ForEach(_, _, _)
ForEach(acc, tags, i) ==
  IF i > Len(tags) THEN acc
  ELSE ForEach(CheckSocialTag(acc, tags[i]), tags, i + 1)

TagList(names, x) == [i \in 1..Len(names) |-> [name |-> names[i], value |-> x[names[i]]]]

\* mutant: the score is capped at half the maximum
ClampHalf(score) == Min(score, maxScore \div 2)

Clamp(score) == Min(score, maxScore)

\* mutant: the base title and description win over the Open Graph ones
PreviewBaseFirst(x) ==
  [title |-> JsOr(x["title"], x["og:title"]),
   description |-> JsOr(x["description"], x["og:description"]),
   image |-> JsOr(x["og:image"], x["twitter:image"])]

\* mutant: the image falls back a third level, to og:url
PreviewThirdLevel(x) ==
  [title |-> JsOr(x["og:title"], x["title"]),
   description |-> JsOr(x["og:description"], x["description"]),
   image |-> JsOr(JsOr(x["og:image"], x["twitter:image"]), x["og:url"])]

Preview(x) ==
  [title |-> JsOr(x["og:title"], x["title"]),
   description |-> JsOr(x["og:description"], x["description"]),
   image |-> JsOr(x["og:image"], x["twitter:image"])]

\* score and results as they stand after the last forEach, before the clamp
Tally(doc) ==
  LET x == Extract(doc)
      a0 == [score |-> 0, results |-> <<>>]
      a1 == CheckTitle(a0, x["title"])
      a2 == CheckDescription(a1, x["description"])
      a3 == CheckRobots(a2, x["robots"])
      a4 == CheckCanonical(a3, x["canonical"])
      a5 == ForEach(a4, TagList(ogNames, x), 1)
  IN  ForEach(a5, TagList(twitterNames, x), 1)

\* the body of the 200 response for a fetched document
Analyze(url, doc) ==
  [url |-> url,
   score |-> Clamp(Tally(doc).score),
   maxScore |-> maxScore,
   results |-> Tally(doc).results,
   preview |-> Preview(Extract(doc))]

(***************************************************************************)
(* Request URLs and the outcomes of axios.get (server.js 28-39).            *)
(***************************************************************************)
HttpUrl == Str(<<"https://example.com/">>)

MalformedUrl == Str(<<"http://">>)

UnsupportedUrl == Str(<<"ftp://example.com/">>)

\* values of req.body.url for which !url holds
MissingUrls == {Undefined, EmptyString}

FetchableUrls == {HttpUrl, MalformedUrl, UnsupportedUrl}

UpstreamStatuses == {400, 404, 500, 502, 504}

\* The rejection value of axios.get: code ('' when the error has none),
\* status of error.response (0 when there is no response), whether
\* error.request is set, and error.message.
Err(code, status, request, message) ==
  [code |-> Str(code), status |-> status, request |-> request,
   message |-> Str(message)]

NoError == Err(<<>>, 0, FALSE, <<>>)

FetchErrors(url) ==
  IF url = MalformedUrl
    THEN {Err(<<"ERR_INVALID_URL">>, 0, FALSE, <<"Invalid URL">>)}
  ELSE IF url = UnsupportedUrl
    THEN {Err(<<"ERR_BAD_REQUEST">>, 0, FALSE,
              <<"Unsupported protocol", " ", "ftp:">>)}
  ELSE {Err(<<"ENOTFOUND">>, 0, TRUE, <<"getaddrinfo", " ", "ENOTFOUND">>),
        Err(<<"EAI_AGAIN">>, 0, TRUE, <<"getaddrinfo", " ", "EAI_AGAIN">>),
        Err(<<"ECONNREFUSED">>, 0, TRUE, <<"connect", " ", "ECONNREFUSED">>),
        Err(<<"ECONNRESET">>, 0, TRUE, <<"socket hang up">>),
        Err(<<"ETIMEDOUT">>, 0, TRUE, <<"connect", " ", "ETIMEDOUT">>)}
       \cup {Err(IF st < 500 THEN <<"ERR_BAD_REQUEST">>
                             ELSE <<"ERR_BAD_RESPONSE">>,
                 st, TRUE,
                 <<"Request failed with status code", " ", ToString(st)>>) :
               st \in UpstreamStatuses}

\* String.prototype.includes for a needle that is one token of the message
Includes(message, needle) == \E i \in 1..Len(message.s) : message.s[i] = needle

(***************************************************************************)
(* Responses (server.js 31, 139-149, 151-184).                             *)
(***************************************************************************)
NoResponse == [status |-> 0, body |-> [none |-> TRUE]]

NoFetch == [settled |-> FALSE, ok |-> FALSE, data |-> NoDoc, error |-> NoError]

UrlRequired == [status |-> 400, body |-> [error |-> Str(<<"URL is required">>)]]

\* mutant: the ECONNREFUSED branch is lost
ClassifyNoRefused(error) ==
  IF error.code = Str(<<"ENOTFOUND">>) \/ error.code = Str(<<"EAI_AGAIN">>)
    THEN <<Str(<<"Could not resolve the provided URL. Please check if the URL is correct and try again.">>), 400>>
  ELSE IF error.status # 0
    THEN <<Str(<<"The server responded with status", " ", ToString(error.status)>>),
           error.status>>
  ELSE IF error.request
    THEN <<Str(<<"No response received from the server. Please check the URL and try again.">>), 504>>
  ELSE IF Includes(error.message, "Invalid URL")
    THEN <<Str(<<"The provided URL is not valid. Please check the URL and try again.">>), 400>>
  ELSE IF Includes(error.message, "timeout")
    THEN <<Str(<<"The request timed out. Please try again later.">>), 504>>
  ELSE <<Str(<<"Failed to analyze URL">>), 500>>

\* the catch block's classification chain: <<errorMessage, statusCode>>
Classify(error) ==
  IF error.code = Str(<<"ENOTFOUND">>) \/ error.code = Str(<<"EAI_AGAIN">>)
    THEN <<Str(<<"Could not resolve the provided URL. Please check if the URL is correct and try again.">>), 400>>
  ELSE IF error.code = Str(<<"ECONNREFUSED">>)
    THEN <<Str(<<"Connection refused. The server might be down or the URL might be incorrect.">>), 502>>
  ELSE IF error.status # 0
    THEN <<Str(<<"The server responded with status", " ", ToString(error.status)>>),
           error.status>>
  ELSE IF error.request
    THEN <<Str(<<"No response received from the server. Please check the URL and try again.">>), 504>>
  ELSE IF Includes(error.message, "Invalid URL")
    THEN <<Str(<<"The provided URL is not valid. Please check the URL and try again.">>), 400>>
  ELSE IF Includes(error.message, "timeout")
    THEN <<Str(<<"The request timed out. Please try again later.">>), 504>>
  ELSE <<Str(<<"Failed to analyze URL">>), 500>>

\* mutant: the catch block swallows the error and analyses an empty document
ErrorResponseAnalysesEmpty(error) ==
  [status |-> 200, body |-> Analyze(Undefined, NoDoc)]

ErrorResponse(error) ==
  [status |-> Classify(error)[2],
   body |-> [error |-> Classify(error)[1],
             details |-> error.message,
             code |-> JsOr(error.code, Str(<<"UNKNOWN_ERROR">>))]]

ResultResponse(url, doc) == [status |-> 200, body |-> Analyze(url, doc)]

(***************************************************************************)
(* The handler as a state machine.  Each request slot runs one invocation  *)
(* of the handler at a time; the only suspension point is the await of     *)
(* axios.get, so an invocation is idle, fetching or responded.  fetches    *)
(* and sent count the calls of axios.get and of res.json the current       *)
(* invocation has made.                                                    *)
(***************************************************************************)
Reqs == {"r1", "r2"}

\* the small document set used where two invocations interleave
SmallDocs == {CanonicalDoc({}), CanonicalDoc(Keys)}

\* useState initial values (App.tsx 26-29); no request in flight
ClientInit ==
  /\ cUrl = <<>>
  /\ isLoading = FALSE
  /\ cError = EmptyString
  /\ cResult = Null
  /\ cPc = "idle"
  /\ wire = Undefined
  /\ lastEvent = "none"

Init ==
  /\ ClientInit
  /\ pc = [r \in Reqs |-> "idle"]
  /\ reqUrl = [r \in Reqs |-> Undefined]
  /\ fetchResult = [r \in Reqs |-> NoFetch]
  /\ response = [r \in Reqs |-> NoResponse]
  /\ fetches = [r \in Reqs |-> 0]
  /\ sent = [r \in Reqs |-> 0]

\* lines 28-32: the body carries no url
RejectMissingUrl(r) ==
  /\ pc[r] # "fetching"
  /\ \E url \in MissingUrls : reqUrl' = [reqUrl EXCEPT ![r] = url]
  /\ pc' = [pc EXCEPT ![r] = "responded"]
  /\ fetchResult' = [fetchResult EXCEPT ![r] = NoFetch]
  /\ response' = [response EXCEPT ![r] = UrlRequired]
  /\ fetches' = [fetches EXCEPT ![r] = 0]
  /\ sent' = [sent EXCEPT ![r] = 1]
  /\ UNCHANGED cvars

\* lines 28-39 for a body whose url is truthy: the handler's own variables
BeginFetch(r, url) ==
  /\ pc[r] # "fetching"
  /\ reqUrl' = [reqUrl EXCEPT ![r] = url]
  /\ pc' = [pc EXCEPT ![r] = "fetching"]
  /\ fetchResult' = [fetchResult EXCEPT ![r] = NoFetch]
  /\ response' = [response EXCEPT ![r] = NoResponse]
  /\ fetches' = [fetches EXCEPT ![r] = 1]
  /\ sent' = [sent EXCEPT ![r] = 0]

\* lines 28-39: the handler runs up to the await of axios.get
StartFetch(r) ==
  /\ \E url \in FetchableUrls : BeginFetch(r, url)
  /\ UNCHANGED cvars

\* lines 41-149: axios.get resolved with a 2xx body; extraction, scoring and
\* res.json run without suspending
FetchResolves(r, D) ==
  /\ pc[r] = "fetching"
  /\ reqUrl[r] = HttpUrl
  /\ \E doc \in D :
       /\ fetchResult' = [fetchResult EXCEPT ![r] =
            [settled |-> TRUE, ok |-> TRUE, data |-> doc, error |-> NoError]]
       /\ response' = [response EXCEPT ![r] = ResultResponse(reqUrl[r], doc)]
  /\ pc' = [pc EXCEPT ![r] = "responded"]
  /\ sent' = [sent EXCEPT ![r] = sent[r] + 1]
  /\ UNCHANGED <<reqUrl, fetches, cvars>>

\* mutant: a rejected fetch is tried again before the catch block answers
FetchRejectsRetries(r) ==
  /\ pc[r] = "fetching"
  /\ \/ /\ fetches[r] < 3
        /\ fetches' = [fetches EXCEPT ![r] = fetches[r] + 1]
        /\ UNCHANGED <<pc, reqUrl, fetchResult, response, sent, cvars>>
     \/ /\ \E e \in FetchErrors(reqUrl[r]) :
             /\ fetchResult' = [fetchResult EXCEPT ![r] =
                  [settled |-> TRUE, ok |-> FALSE, data |-> NoDoc, error |-> e]]
             /\ response' = [response EXCEPT ![r] = ErrorResponse(e)]
        /\ pc' = [pc EXCEPT ![r] = "responded"]
        /\ sent' = [sent EXCEPT ![r] = sent[r] + 1]
        /\ UNCHANGED <<reqUrl, fetches, cvars>>

\* lines 151-184: axios.get rejected; the catch block answers
FetchRejects(r) ==
  /\ pc[r] = "fetching"
  /\ \E e \in FetchErrors(reqUrl[r]) :
       /\ fetchResult' = [fetchResult EXCEPT ![r] =
            [settled |-> TRUE, ok |-> FALSE, data |-> NoDoc, error |-> e]]
       /\ response' = [response EXCEPT ![r] = ErrorResponse(e)]
  /\ pc' = [pc EXCEPT ![r] = "responded"]
  /\ sent' = [sent EXCEPT ![r] = sent[r] + 1]
  /\ UNCHANGED <<reqUrl, fetches, cvars>>

\* one invocation at a time, any document
Next ==
  \/ RejectMissingUrl("r1")
  \/ StartFetch("r1")
  \/ FetchResolves("r1", Docs)
  \/ FetchRejects("r1")

Spec == Init /\ [][Next]_vars

\* two invocations interleaving at their awaits, small documents
NextConc ==
  \E r \in Reqs :
    \/ RejectMissingUrl(r)
    \/ StartFetch(r)
    \/ FetchResolves(r, SmallDocs)
    \/ FetchRejects(r)

SpecConc == Init /\ [][NextConc]_vars

(***************************************************************************)
(* The form component (App.tsx 24-63, 132-156) posting to the handler.     *)
(* cPc is the position of analyzeSEO: idle, posted (axios.post called, the *)
(* request not yet at the server) or awaiting (the handler of slot "r1"    *)
(* runs).  wire is the url of the request in flight.  lastEvent records    *)
(* the last thing the component did.                                       *)
(***************************************************************************)
\* texts of the url input
ClientUrls == {<<>>, <<" ">>, <<" ", " ">>, HttpUrl.s, MalformedUrl.s}

FailedToAnalyze == Str(<<"Failed to analyze URL">>)

\* line 137: onChange sets url; the input is never disabled
TypeUrl ==
  /\ \E u \in ClientUrls : cUrl' = u
  /\ cUrl' # cUrl
  /\ lastEvent' = "typed"
  /\ UNCHANGED <<isLoading, cError, cResult, cPc, wire, svars>>

\* lines 47-49: submit with a url that is blank after trim returns at once;
\* the submit button is disabled while isLoading (line 144)
SubmitBlank ==
  /\ ~isLoading
  /\ Trim(cUrl) = <<>>
  /\ lastEvent' = "blank"
  /\ UNCHANGED <<cUrl, isLoading, cError, cResult, cPc, wire, svars>>

\* lines 47-55: submit up to the await of axios.post
SubmitPost ==
  /\ ~isLoading
  /\ Trim(cUrl) # <<>>
  /\ isLoading' = TRUE
  /\ cError' = EmptyString
  /\ wire' = Str(cUrl)
  /\ cPc' = "posted"
  /\ lastEvent' = "posted"
  /\ UNCHANGED <<cUrl, cResult, svars>>

\* the posted request reaches the handler (server.js 28-39); its url is
\* truthy, the form posts no blank url
PostArrives ==
  /\ cPc = "posted"
  /\ Truthy(wire)
  /\ BeginFetch("r1", wire)
  /\ cPc' = "awaiting"
  /\ UNCHANGED <<cUrl, isLoading, cError, cResult, wire, lastEvent>>

\* lines 55-56, 60-62: the handler answered 2xx
PostResolves ==
  /\ cPc = "awaiting"
  /\ pc["r1"] = "responded"
  /\ response["r1"].status = 200
  /\ cResult' = response["r1"].body
  /\ isLoading' = FALSE
  /\ cPc' = "idle"
  /\ lastEvent' = "resolved"
  /\ UNCHANGED <<cUrl, cError, wire, svars>>

\* mutant: setIsLoading(false) sits in the try block, not in finally
PostRejectsKeepsLoading ==
  /\ cPc = "awaiting"
  /\ pc["r1"] = "responded"
  /\ response["r1"].status # 200
  /\ cError' = JsOr(response["r1"].body.error, FailedToAnalyze)
  /\ cPc' = "idle"
  /\ lastEvent' = "rejected"
  /\ UNCHANGED <<cUrl, isLoading, cResult, wire, svars>>

\* lines 57-62: the handler answered with an error status
PostRejects ==
  /\ cPc = "awaiting"
  /\ pc["r1"] = "responded"
  /\ response["r1"].status # 200
  /\ cError' = JsOr(response["r1"].body.error, FailedToAnalyze)
  /\ isLoading' = FALSE
  /\ cPc' = "idle"
  /\ lastEvent' = "rejected"
  /\ UNCHANGED <<cUrl, cResult, wire, svars>>

\* lines 57-62: the request never reached the handler (err.response is
\* undefined)
PostFails ==
  /\ cPc = "posted"
  /\ cError' = FailedToAnalyze
  /\ isLoading' = FALSE
  /\ cPc' = "idle"
  /\ lastEvent' = "rejected"
  /\ UNCHANGED <<cUrl, cResult, wire, svars>>

\* the form and the handler invocation it drives
NextClient ==
  \/ TypeUrl
  \/ SubmitBlank
  \/ SubmitPost
  \/ PostArrives
  \/ FetchResolves("r1", SmallDocs)
  \/ FetchRejects("r1")
  \/ PostResolves
  \/ PostRejects
  \/ PostFails

SpecClient == Init /\ [][NextClient]_vars

(***************************************************************************)
(* Vocabulary of the properties.  These are stated on the document and on  *)
(* the response, independently of the handler's locals.                    *)
(***************************************************************************)
\* the invocation of slot r answered with an analysis of a fetched document
Analysed(r) ==
  pc[r] = "responded" /\ fetchResult[r].settled /\ fetchResult[r].ok

\* the invocation of slot r answered after its fetch failed
Failed(r) ==
  pc[r] = "responded" /\ fetchResult[r].settled /\ ~fetchResult[r].ok

DocOf(r) == fetchResult[r].data

BodyOf(r) == response[r].body

\* an attribute that exists and is not the empty string
NonEmpty(v) == v.t = "string" /\ Len(v.s) > 0

\* tag k occurs in the document with a non-empty value
TagOccurs(doc, k) ==
  CASE k = "title" ->
         \E i \in 1..Len(doc.titleText) : doc.titleText[i] # " "
    [] k \in {"description", "robots"} -> NonEmpty(doc.metaName[k])
    [] k = "canonical" -> NonEmpty(doc.linkHref)
    [] OTHER -> NonEmpty(doc.metaName[k]) \/ NonEmpty(doc.metaProperty[k])

\* the strings of the document a present finding of tag k may quote
RawValues(doc, k) ==
  CASE k = "title" -> {Str(Trim(doc.titleText))}
    [] k \in {"description", "robots"} -> {doc.metaName[k]}
    [] k = "canonical" -> {doc.linkHref}
    [] OTHER -> {doc.metaName[k], doc.metaProperty[k]}

TagOrder ==
  <<"title", "description", "robots", "canonical",
    "og:title", "og:description", "og:image", "og:type", "og:url",
    "twitter:card", "twitter:title", "twitter:description", "twitter:image">>

TagsOf(results) == [i \in 1..Len(results) |-> results[i].tag]

\* the finding of tag k in a results sequence
FindingOf(results, k) ==
  results[CHOOSE i \in 1..Len(results) : results[i].tag = k]

Placeholders == {RobotsMessage, CanonicalMessage}

\* points of tag k as the scoring table gives them
TablePoints(k, present) ==
  CASE k \in {"title", "description"} -> IF present THEN 20 ELSE 0
    [] k = "robots" -> IF present THEN 10 ELSE 5
    [] k = "canonical" -> IF present THEN 10 ELSE 0
    [] OTHER -> IF present THEN 2 ELSE 0

RECURSIVE TableSum(_, _)
TableSum(doc, i) ==
  IF i > Len(TagOrder) THEN 0
  ELSE TablePoints(TagOrder[i], TagOccurs(doc, TagOrder[i]))
         + TableSum(doc, i + 1)

\* C1: every analysis returns exactly 13 findings, one per tag key, in the
\* fixed order title, description, robots, canonical, og:*, twitter:*.
C1_ResultsOrder ==
  \A r \in Reqs :
    Analysed(r) =>
      /\ Len(BodyOf(r).results) = 13
      /\ TagsOf(BodyOf(r).results) = TagOrder

\* an analysis of a document in which some tags occur and others do not
C1_Witness ==
  \E r \in Reqs :
    /\ Analysed(r)
    /\ TagOccurs(DocOf(r), "twitter:card")
    /\ ~TagOccurs(DocOf(r), "title")
    /\ ~TagOccurs(DocOf(r), "og:image")

\* C2: the score lies in [0, 100] and is the clamped sum of the per-tag
\* points of the scoring table, taken over the tags occurring in the document.
C2_ScoreIsClampedSum ==
  \A r \in Reqs :
    Analysed(r) =>
      /\ BodyOf(r).score \in 0..100
      /\ BodyOf(r).score = Min(TableSum(DocOf(r), 1), 100)

\* an analysis of a document without robots but with title and an og tag
C2_Witness ==
  \E r \in Reqs :
    /\ Analysed(r)
    /\ ~TagOccurs(DocOf(r), "robots")
    /\ TagOccurs(DocOf(r), "title")
    /\ TagOccurs(DocOf(r), "og:url")
    /\ BodyOf(r).score = 27

\* C3 as stated: missing findings carry null, warning findings a non-null
\* message, present findings the raw extracted string and never one of the
\* placeholder messages used for warnings.
C3_AsStated ==
  \A r \in Reqs :
    Analysed(r) =>
      \A i \in 1..Len(BodyOf(r).results) :
        LET f == BodyOf(r).results[i]
        IN  /\ f.status = "missing" => f.value = Null
            /\ f.status = "warning" => NonEmpty(f.value)
            /\ f.status = "present" =>
                 /\ f.value \in RawValues(DocOf(r), f.tag)
                 /\ f.value \notin Placeholders

\* C3 (amended): missing findings carry null, warning findings carry the
\* non-null placeholder message of their tag, present findings carry the raw,
\* non-empty string extracted from the document, whatever its text.
C3_StatusValueCoupling ==
  \A r \in Reqs :
    Analysed(r) =>
      \A i \in 1..Len(BodyOf(r).results) :
        LET f == BodyOf(r).results[i]
        IN  /\ f.status \in {"present", "missing", "warning"}
            /\ f.status = "missing" => f.value = Null
            /\ f.status = "warning" =>
                 /\ NonEmpty(f.value)
                 /\ f.value \in Placeholders
                 /\ ~TagOccurs(DocOf(r), f.tag)
            /\ f.status = "present" =>
                 /\ NonEmpty(f.value)
                 /\ f.value \in RawValues(DocOf(r), f.tag)

\* an analysis with a missing, a warning and a present finding, the present
\* one quoting a document whose robots content reads like the warning text
C3_Witness ==
  \E r \in Reqs :
    /\ Analysed(r)
    /\ FindingOf(BodyOf(r).results, "title").status = "missing"
    /\ FindingOf(BodyOf(r).results, "canonical").status = "warning"
    /\ FindingOf(BodyOf(r).results, "robots").status = "present"
    /\ FindingOf(BodyOf(r).results, "robots").value = RobotsMessage

\* C4: a document in which none of the 13 tags occurs yields title and
\* description missing, robots and canonical warning with a non-null
\* message, every og:* and twitter:* finding missing, and score 5.
C4_EmptyDocument ==
  \A r \in Reqs :
    (Analysed(r) /\ \A k \in Keys : ~TagOccurs(DocOf(r), k)) =>
      LET res == BodyOf(r).results
      IN  /\ FindingOf(res, "title").status = "missing"
          /\ FindingOf(res, "description").status = "missing"
          /\ FindingOf(res, "robots").status = "warning"
          /\ NonEmpty(FindingOf(res, "robots").value)
          /\ FindingOf(res, "canonical").status = "warning"
          /\ NonEmpty(FindingOf(res, "canonical").value)
          /\ \A k \in SocialKeys : FindingOf(res, k).status = "missing"
          /\ BodyOf(r).score = 5

\* an analysis of the document with no inspected element at all
C4_Witness ==
  \E r \in Reqs : Analysed(r) /\ DocOf(r) = CanonicalDoc({})

\* C5: a document in which all 13 tags occur yields score 78 and every
\* finding present.
C5_FullDocument ==
  \A r \in Reqs :
    (Analysed(r) /\ \A k \in Keys : TagOccurs(DocOf(r), k)) =>
      /\ BodyOf(r).score = 78
      /\ \A i \in 1..Len(BodyOf(r).results) :
           BodyOf(r).results[i].status = "present"

\* an analysis of a document in which all 13 tags occur
C5_Witness ==
  \E r \in Reqs : Analysed(r) /\ \A k \in Keys : TagOccurs(DocOf(r), k)

\* the preview field that prefers finding `first` and falls back to finding
\* `second`, and is `none` when neither is present
TwoLevel(res, first, second, none) ==
  IF FindingOf(res, first).status = "present" THEN FindingOf(res, first).value
  ELSE IF FindingOf(res, second).status = "present"
       THEN FindingOf(res, second).value
       ELSE none

\* C6 as stated: preview.title is the og:title value when present, else the
\* base title when present, else null; preview.description likewise.
C6_AsStated ==
  \A r \in Reqs :
    Analysed(r) =>
      LET res == BodyOf(r).results
      IN  /\ BodyOf(r).preview.title = TwoLevel(res, "og:title", "title", Null)
          /\ BodyOf(r).preview.description =
               TwoLevel(res, "og:description", "description", Null)

\* C6 (amended): preview.title is the og:title value when present, else the
\* base title when present, else the empty string; preview.description
\* likewise with og:description and description.
C6_PreviewText ==
  \A r \in Reqs :
    Analysed(r) =>
      LET res == BodyOf(r).results
      IN  /\ BodyOf(r).preview.title =
               TwoLevel(res, "og:title", "title", EmptyString)
          /\ BodyOf(r).preview.description =
               TwoLevel(res, "og:description", "description", EmptyString)

\* an analysis where title falls back to the base title and the description
\* has neither source
C6_Witness ==
  \E r \in Reqs :
    /\ Analysed(r)
    /\ ~TagOccurs(DocOf(r), "og:title")
    /\ TagOccurs(DocOf(r), "title")
    /\ ~TagOccurs(DocOf(r), "og:description")
    /\ ~TagOccurs(DocOf(r), "description")
    /\ BodyOf(r).preview.description = EmptyString

\* C7: preview.image is the og:image value when present, else the
\* twitter:image value when present, else null; no other tag supplies it.
C7_PreviewImage ==
  \A r \in Reqs :
    Analysed(r) =>
      BodyOf(r).preview.image =
        TwoLevel(BodyOf(r).results, "og:image", "twitter:image", Null)

\* an analysis where the image falls back to twitter:image while other tags
\* with values are around
C7_Witness ==
  \E r \in Reqs :
    /\ Analysed(r)
    /\ ~TagOccurs(DocOf(r), "og:image")
    /\ TagOccurs(DocOf(r), "twitter:image")
    /\ TagOccurs(DocOf(r), "og:url")
    /\ BodyOf(r).preview.image = Str(<<"twitter:image">>)

\* the value found by trying attribute form `first`, then form `second`
Preferred(first, second) ==
  IF NonEmpty(first) THEN first
  ELSE IF NonEmpty(second) THEN second ELSE Null

\* C8 as stated: og:X is read from meta[property] and from meta[name] only
\* when the property form yields nothing; twitter:X is read from meta[name]
\* and from meta[property] only when the name form yields nothing.
C8_AsStated ==
  \A r \in Reqs :
    Analysed(r) =>
      /\ \A k \in OgKeys :
           FindingOf(BodyOf(r).results, k).value =
             Preferred(DocOf(r).metaProperty[k], DocOf(r).metaName[k])
      /\ \A k \in TwitterKeys :
           FindingOf(BodyOf(r).results, k).value =
             Preferred(DocOf(r).metaName[k], DocOf(r).metaProperty[k])

\* C8 (amended): every og:X and twitter:X key alike is read from meta[name]
\* and from meta[property] only when the name form yields nothing.
C8_NameFormFirst ==
  \A r \in Reqs :
    Analysed(r) =>
      \A k \in SocialKeys :
        FindingOf(BodyOf(r).results, k).value =
          Preferred(DocOf(r).metaName[k], DocOf(r).metaProperty[k])

\* an analysis of a document carrying both forms of an og key with
\* different contents
C8_Witness ==
  \E r \in Reqs :
    /\ Analysed(r)
    /\ \E k \in OgKeys :
         /\ NonEmpty(DocOf(r).metaName[k])
         /\ NonEmpty(DocOf(r).metaProperty[k])
         /\ DocOf(r).metaName[k] # DocOf(r).metaProperty[k]
         /\ FindingOf(BodyOf(r).results, k).value = DocOf(r).metaName[k]

\* C10: a request whose fetch failed is answered with an error record of
\* exactly error, details and code and a non-200 status, never with score,
\* results or preview; an analysis is returned only after a successful fetch.
C10_FailureShortCircuits ==
  \A r \in Reqs :
    /\ Failed(r) =>
         /\ DOMAIN BodyOf(r) = {"error", "details", "code"}
         /\ response[r].status # 200
    /\ (pc[r] = "responded"
        /\ {"score", "results", "preview"} \cap DOMAIN BodyOf(r) # {}) =>
         /\ fetchResult[r].settled
         /\ fetchResult[r].ok
         /\ fetches[r] = 1

\* one invocation answered after a failed fetch while the other answered
\* with an analysis
C10_Witness ==
  \E r, q \in Reqs :
    /\ Failed(r)
    /\ fetchResult[r].error.status = 404
    /\ Analysed(q)

\* the failure kind of the taxonomy an axios rejection belongs to, read off
\* the error's own code
KindOf(e) ==
  CASE e.code \in {Str(<<"ENOTFOUND">>), Str(<<"EAI_AGAIN">>)} -> "dns-failure"
    [] e.code = Str(<<"ECONNREFUSED">>) -> "connection-refused"
    [] e.code = Str(<<"ERR_INVALID_URL">>) -> "invalid-url"
    [] e.code \in {Str(<<"ECONNRESET">>), Str(<<"ETIMEDOUT">>),
                   Str(<<"ECONNABORTED">>)} -> "no-response"
    [] e.status # 0 -> "upstream-error"
    [] OTHER -> "other"

Taxonomy ==
  {"invalid-url", "dns-failure", "connection-refused", "upstream-error",
   "no-response"}

ErrorOf(r) == fetchResult[r].error

\* C11 as stated: failures of two different kinds are answered with different
\* messages and different HTTP status codes, and an upstream-error answer
\* carries the upstream's status.
C11_AsStated ==
  \A r, q \in Reqs :
    (Failed(r) /\ Failed(q)
     /\ KindOf(ErrorOf(r)) \in Taxonomy /\ KindOf(ErrorOf(q)) \in Taxonomy) =>
      /\ KindOf(ErrorOf(r)) # KindOf(ErrorOf(q)) =>
           /\ BodyOf(r).error # BodyOf(q).error
           /\ response[r].status # response[q].status
      /\ KindOf(ErrorOf(r)) = "upstream-error" =>
           response[r].status = ErrorOf(r).status

\* the status code the handler gives each kind
KindStatus(e) ==
  CASE KindOf(e) \in {"invalid-url", "dns-failure"} -> 400
    [] KindOf(e) = "connection-refused" -> 502
    [] KindOf(e) = "no-response" -> 504
    [] KindOf(e) = "upstream-error" -> e.status

\* C11 (amended): failures of two different kinds are answered with different
\* messages; the status code is 400 for invalid-url and for dns-failure
\* alike, 502 for connection-refused, 504 for no-response/timeout and the
\* upstream's own status for upstream-error.
C11_MessagesDistinct ==
  \A r, q \in Reqs :
    (Failed(r) /\ Failed(q)
     /\ KindOf(ErrorOf(r)) \in Taxonomy /\ KindOf(ErrorOf(q)) \in Taxonomy) =>
      /\ KindOf(ErrorOf(r)) # KindOf(ErrorOf(q)) =>
           BodyOf(r).error # BodyOf(q).error
      /\ response[r].status = KindStatus(ErrorOf(r))

\* a dns failure and an invalid url answered side by side, both with 400
C11_Witness ==
  \E r, q \in Reqs :
    /\ Failed(r) /\ KindOf(ErrorOf(r)) = "dns-failure"
    /\ Failed(q) /\ KindOf(ErrorOf(q)) = "invalid-url"
    /\ response[r].status = 400
    /\ response[q].status = 400
    /\ BodyOf(r).error # BodyOf(q).error

TimeoutMessage == Str(<<"The request timed out. Please try again later.">>)

\* an error raised because a timer ran out
IsTimeout(e) == e.code \in {Str(<<"ETIMEDOUT">>), Str(<<"ECONNABORTED">>)}

\* C12: a fetch that times out is answered with the timeout message, a
\* failure kind of its own, also when the error carries a request and no
\* response.
C12_TimeoutIsItsOwnKind ==
  \A r \in Reqs :
    (Failed(r) /\ IsTimeout(ErrorOf(r))) => BodyOf(r).error = TimeoutMessage

\* what holds of every invocation at every moment: at most one fetch, at
\* most one response, exactly one response once it has responded, either an
\* analysis or an error record
OneFetchOneResponse ==
  \A r \in Reqs :
    /\ fetches[r] <= 1
    /\ sent[r] <= 1
    /\ pc[r] = "responded" <=> sent[r] = 1
    /\ pc[r] = "fetching" => (fetches[r] = 1 /\ response[r] = NoResponse)
    /\ fetchResult[r].settled => (pc[r] = "responded" /\ fetches[r] = 1)
    /\ pc[r] = "responded" =>
         \/ DOMAIN BodyOf(r) = {"url", "score", "maxScore", "results", "preview"}
         \/ "error" \in DOMAIN BodyOf(r)

\* the step that ends an invocation's fetch sends its one response and
\* starts no other fetch
AnsweredAtOnce ==
  \A r \in Reqs :
    (pc[r] = "fetching" /\ pc'[r] # "fetching") =>
       /\ pc'[r] = "responded"
       /\ sent'[r] = 1
       /\ fetches'[r] = fetches[r]
       /\ response'[r] # NoResponse

C14_ClampNeverBinds ==
  \A r \in Reqs :
    Analysed(r) =>
      /\ Tally(DocOf(r)).score \in 5..78
      /\ TableSum(DocOf(r), 1) \in 5..78
      /\ BodyOf(r).score = Tally(DocOf(r)).score

\* an analysis reaching the largest sum, 78
C14_Witness ==
  \E r \in Reqs :
    /\ Analysed(r)
    /\ Tally(DocOf(r)).score = 78
    /\ BodyOf(r).score = 78
    /\ BodyOf(r).maxScore = 100

\* the attribute with an empty value taken for an attribute that is not there
EraseAttr(v) == IF v = EmptyString THEN Undefined ELSE v

\* the document with every empty value removed: an empty or whitespace-only
\* title becomes no title, an empty content or href becomes no attribute
Erase(doc) ==
  [titleText |-> IF Trim(doc.titleText) = <<>> THEN <<>> ELSE doc.titleText,
   metaName |-> [n \in MetaNames |-> EraseAttr(doc.metaName[n])],
   metaProperty |-> [n \in SocialKeys |-> EraseAttr(doc.metaProperty[n])],
   linkHref |-> EraseAttr(doc.linkHref)]

\* C15: a tag whose extracted value is the empty string is treated exactly
\* like a tag that does not occur: the answer equals that for the document
\* without the empty values, the finding is missing (warning for robots and
\* canonical), and an empty og:/twitter: value in one attribute form falls
\* through to the other form.
C15_EmptyIsAbsent ==
  \A r \in Reqs :
    Analysed(r) =>
      LET doc == DocOf(r)
          res == BodyOf(r).results
      IN  /\ BodyOf(r) = Analyze(reqUrl[r], Erase(doc))
          /\ BodyOf(r).score = Min(TableSum(Erase(doc), 1), 100)
          /\ \A k \in Keys :
               ~TagOccurs(doc, k) =>
                 FindingOf(res, k).status =
                   IF k \in {"robots", "canonical"} THEN "warning" ELSE "missing"
          /\ \A k \in SocialKeys :
               /\ (doc.metaName[k] = EmptyString /\ NonEmpty(doc.metaProperty[k]))
                    => FindingOf(res, k).value = doc.metaProperty[k]
               /\ (doc.metaProperty[k] = EmptyString /\ NonEmpty(doc.metaName[k]))
                    => FindingOf(res, k).value = doc.metaName[k]

\* an analysis of a document with an og key whose name form is empty and
\* whose property form has a value
C15_Witness ==
  \E r \in Reqs :
    /\ Analysed(r)
    /\ \E k \in OgKeys :
         /\ DocOf(r).metaName[k] = EmptyString
         /\ NonEmpty(DocOf(r).metaProperty[k])
         /\ FindingOf(BodyOf(r).results, k).status = "present"
         /\ FindingOf(BodyOf(r).results, k).value = DocOf(r).metaProperty[k]

\* what holds of the form at every moment: isLoading is true exactly while
\* a request is in flight, and the error is clear while one is
FormLoadingState ==
  /\ isLoading <=> cPc # "idle"
  /\ cPc # "idle" => cError = EmptyString

\* what every step of the form does
FormStep ==
  /\ (cPc = "idle" /\ cPc' # "idle") =>
       /\ Trim(cUrl) # <<>>
       /\ isLoading' /\ cError' = EmptyString /\ wire' = Str(cUrl)
       /\ cResult' = cResult
  /\ (cPc # "idle" /\ cPc' = "idle") =>
       /\ ~isLoading'
       /\ IF cPc = "awaiting" /\ response["r1"].status = 200
            THEN cResult' = response["r1"].body /\ cError' = cError
            ELSE cResult' = cResult /\ cError' # EmptyString
  /\ (lastEvent' = "blank" /\ cUrl' = cUrl) =>
       /\ Trim(cUrl) = <<>>
       /\ UNCHANGED <<isLoading, cError, cResult, cPc, wire>>

\* C16: a submission with a non-blank url sets isLoading and clears the error
\* before the request is sent; isLoading is false again once the request
\* completes, the result replaced on success, the error set and the earlier
\* result kept on failure; a submission with a blank or whitespace-only url
\* sends nothing and leaves isLoading, error and result unchanged.
C16_FormLoadingCycle == []FormLoadingState /\ [][FormStep]_vars

\* the form after a failed request that followed a successful one: the
\* error is set, the earlier result is still there, isLoading is false
C16_Witness ==
  /\ lastEvent = "rejected"
  /\ ~isLoading
  /\ cError # EmptyString
  /\ cResult # Null
  /\ cPc = "idle"

====
